---- MODULE Spec2Model ----
(***************************************************************************)
(* Model of the annotation search pipeline of h: the query modifiers of    *)
(* h/search/query.py and the Search orchestrator of h/search/core.py.      *)
(*                                                                         *)
(* Strings are sequences of one-character strings, so that int(), lower()  *)
(* and ' '.join() are computed character by character.  The parameter bag  *)
(* is the item list of a webob MultiDict: an ordered sequence of           *)
(* key/value pairs in which a key may occur more than once.                *)
(***************************************************************************)
EXTENDS Integers, Sequences, FiniteSets, TLC

\* ------------------------------------------------------------------ bounds

\* longest text fed to the limit/offset parsers
MaxTextLen == 3
\* most key/value pairs in a caller's parameter bag
MaxBag == 2
\* most modifiers and aggregations added to a pipeline after construction
MaxExtra == 2

\* ------------------------------------------------------- program constants

LIMIT_DEFAULT == 20
LIMIT_MAX == 200
\* the default of Search.__init__'s _replies_limit
REPLIES_LIMIT == 200

\* ------------------------------------------------------------------ values

StrVal(s) == [t |-> "str", s |-> s, n |-> 0]
IntVal(n) == [t |-> "int", s |-> <<>>, n |-> n]
PyTrue == [t |-> "bool", s |-> <<>>, n |-> 1]
None == [t |-> "none", s |-> <<>>, n |-> 0]

Pair(k, v) == [k |-> k, v |-> v]

RECURSIVE SeqsUpTo(_, _)
SeqsUpTo(S, n) ==
    IF n = 0 THEN {<<>>}
    ELSE LET shorter == SeqsUpTo(S, n - 1)
         IN shorter \cup {Append(s, x) : s \in {q \in shorter : Len(q) = n - 1}, x \in S}

RECURSIVE SelectSeq2(_, _)
\* the elements of seq whose key is in keys, in order (a list comprehension)
SelectSeq2(seq, keys) ==
    IF seq = <<>> THEN <<>>
    ELSE IF Head(seq).k \in keys THEN <<Head(seq)>> \o SelectSeq2(Tail(seq), keys)
    ELSE SelectSeq2(Tail(seq), keys)

\* ----------------------------------------------- the parameter bag (MultiDict)

\* key in params
Has(params, key) == \E i \in 1..Len(params) : params[i].k = key

FirstIndex(params, key) ==
    CHOOSE i \in 1..Len(params) :
        params[i].k = key /\ \A j \in 1..(i - 1) : params[j].k # key

RemoveAt(params, i) == SubSeq(params, 1, i - 1) \o SubSeq(params, i + 1, Len(params))

RECURSIVE WithoutKey(_, _)
\* the items of the bag whose key is not this one, in order
WithoutKey(params, key) ==
    IF params = <<>> THEN <<>>
    ELSE IF Head(params).k = key THEN WithoutKey(Tail(params), key)
    ELSE <<Head(params)>> \o WithoutKey(Tail(params), key)

\* params.pop(key): the value of the first item with this key, which is the
\* only item removed; found = FALSE stands for KeyError (or the default).
Pop(params, key) ==
    IF Has(params, key)
    THEN LET i == FirstIndex(params, key)
         IN [found |-> TRUE, v |-> params[i].v, params |-> RemoveAt(params, i)]
    ELSE [found |-> FALSE, v |-> None, params |-> params]

\* params.pop(key, default)
PopDefault(params, key, default) ==
    LET p == Pop(params, key)
    IN [v |-> IF p.found THEN p.v ELSE default, params |-> p.params]

\* del params[key]: removes every item with this key
Del(params, key) == WithoutKey(params, key)

\* [v for k, v in params.items() if k in keys]
ValuesOf(params, keys) ==
    LET items == SelectSeq2(params, keys)
    IN [i \in 1..Len(items) |-> items[i].v]

\* ------------------------------------------------------------------- int()

Digits == {"0", "1", "2", "3", "4", "5", "6", "7", "8", "9"}

DigitVal(c) ==
    CASE c = "0" -> 0 [] c = "1" -> 1 [] c = "2" -> 2 [] c = "3" -> 3
      [] c = "4" -> 4 [] c = "5" -> 5 [] c = "6" -> 6 [] c = "7" -> 7
      [] c = "8" -> 8 [] c = "9" -> 9

RECURSIVE LStrip(_)
LStrip(s) == IF s # <<>> /\ Head(s) = " " THEN LStrip(Tail(s)) ELSE s

RECURSIVE RStrip(_)
RStrip(s) ==
    IF s # <<>> /\ s[Len(s)] = " " THEN RStrip(SubSeq(s, 1, Len(s) - 1)) ELSE s

Strip(s) == RStrip(LStrip(s))

\* digits, with single underscores allowed between two digits
WellFormedDigits(s) ==
    /\ s # <<>>
    /\ \A i \in 1..Len(s) :
          \/ s[i] \in Digits
          \/ /\ s[i] = "_"
             /\ 1 < i /\ i < Len(s)
             /\ s[i - 1] \in Digits
             /\ s[i + 1] \in Digits

RECURSIVE DigitsValue(_, _)
DigitsValue(s, acc) ==
    IF s = <<>> THEN acc
    ELSE IF Head(s) = "_" THEN DigitsValue(Tail(s), acc)
    ELSE DigitsValue(Tail(s), acc * 10 + DigitVal(Head(s)))

\* int(v): ok = FALSE stands for ValueError
PyInt(v) ==
    IF v.t = "int" THEN [ok |-> TRUE, n |-> v.n]
    ELSE LET s == Strip(v.s)
             signed == s # <<>> /\ s[1] \in {"-", "+"}
             body == IF signed THEN Tail(s) ELSE s
             mag == DigitsValue(body, 0)
         IN IF WellFormedDigits(body)
            THEN [ok |-> TRUE, n |-> IF s[1] = "-" THEN 0 - mag ELSE mag]
            ELSE [ok |-> FALSE, n |-> 0]

Min(a, b) == IF a < b THEN a ELSE b

\* ---------------------------------------------------- the query being built

\* A clause: vals is the set of values it names, sub the set of its sub-clauses.
Clause(op, field, vals, sub) == [op |-> op, field |-> field, vals |-> vals, sub |-> sub]
Term(field, v) == Clause("term", field, {v}, {})
Terms(field, vs) == Clause("terms", field, vs, {})
Match(field, v) == Clause("match", field, {v}, {})
Exists(field) == Clause("exists", field, {}, {})
Wildcard(field, v) == Clause("wildcard", field, {v}, {})
SimpleQueryString(qs) == Clause("simple_query_string", "", {qs}, {})
BoolShould(sub) == Clause("should", "", {}, sub)
BoolMust(sub) == Clause("must", "", {}, sub)
MustNot(c) == Clause("must_not", "", {}, {c})

\* elasticsearch_dsl.Search(...).source(False): nothing but "match all"
EmptySearch ==
    [filter |-> <<>>, query |-> <<>>, sort |-> <<>>, window |-> <<>>, aggs |-> <<>>]

\* A mutant of Filter: the new clause replaces the filter clauses.
FilterReplacing(search, c) == [search EXCEPT !.filter = <<c>>]

\* search.filter(...): one more clause that every hit must satisfy
Filter(search, c) == [search EXCEPT !.filter = Append(@, c)]
\* search.exclude(...) is search.filter(~Q(...))
Exclude(search, c) == Filter(search, MustNot(c))
\* search.query(...): and-ed to the query
Query(search, c) == [search EXCEPT !.query = Append(@, c)]
\* search[a:b]
Slice(search, a, b) == [search EXCEPT !.window = <<a, b - a>>]
\* search.sort({field: {"order": order, "unmapped_type": "boolean"}})
Sort(search, field, order) == [search EXCEPT !.sort = <<Pair(field, order)>>]

\* ---------------------------------------------------------------- Limiter

\* A mutant of ExtractLimit: the cap at LIMIT_MAX is missing.
ExtractLimitNoCap(params) ==
    LET p == Pop(params, "limit")
        r == PyInt(p.v)
    IN IF ~p.found THEN [val |-> LIMIT_DEFAULT, params |-> p.params]
       ELSE IF ~r.ok \/ r.n < 0 THEN [val |-> LIMIT_DEFAULT, params |-> p.params]
       ELSE [val |-> r.n, params |-> p.params]

\* A mutant of ExtractLimit: a limit of 0 is refused like a negative one.
ExtractLimitDefaultOnZero(params) ==
    LET p == Pop(params, "limit")
        r == PyInt(p.v)
        val == Min(r.n, LIMIT_MAX)
    IN IF ~p.found THEN [val |-> LIMIT_DEFAULT, params |-> p.params]
       ELSE IF ~r.ok \/ val <= 0 THEN [val |-> LIMIT_DEFAULT, params |-> p.params]
       ELSE [val |-> val, params |-> p.params]

\* A mutant of ExtractOffset: the offset is capped like the limit.
ExtractOffsetCapped(params) ==
    LET p == Pop(params, "offset")
        r == PyInt(p.v)
    IN IF ~p.found THEN [val |-> 0, params |-> p.params]
       ELSE IF ~r.ok \/ r.n < 0 THEN [val |-> 0, params |-> p.params]
       ELSE [val |-> Min(r.n, LIMIT_MAX), params |-> p.params]

ExtractOffset(params) ==
    LET p == Pop(params, "offset")
        r == PyInt(p.v)
    IN IF ~p.found THEN [val |-> 0, params |-> p.params]
       ELSE IF ~r.ok \/ r.n < 0 THEN [val |-> 0, params |-> p.params]
       ELSE [val |-> r.n, params |-> p.params]

ExtractLimit(params) ==
    LET p == Pop(params, "limit")
        r == PyInt(p.v)
        val == Min(r.n, LIMIT_MAX)
    IN IF ~p.found THEN [val |-> LIMIT_DEFAULT, params |-> p.params]
       ELSE IF ~r.ok \/ val < 0 THEN [val |-> LIMIT_DEFAULT, params |-> p.params]
       ELSE [val |-> val, params |-> p.params]

Limiter(search, params) ==
    LET off == ExtractOffset(params)
        lim == ExtractLimit(off.params)
        starting_offset == off.val
        ending_offset == starting_offset + lim.val
    IN [search |-> Slice(search, starting_offset, ending_offset),
        params |-> lim.params]


\* ----------------------------------------------------------------- Sorter

Sorter(search, params) ==
    LET s == PopDefault(params, "sort", StrVal(<<"u", "p", "d", "a", "t", "e", "d">>))
        o == PopDefault(s.params, "order", StrVal(<<"d", "e", "s", "c">>))
    IN [search |-> Sort(search, s.v, o.v), params |-> o.params]

\* ------------------------------------------------------- the simple filters

TopLevelAnnotationsFilter(search, params) ==
    [search |-> Exclude(search, Exists("references")), params |-> params]

DeletedFilter(search, params) ==
    [search |-> Exclude(search, Exists("deleted")), params |-> params]

\* the authority an AuthorityFilter is constructed with
Authority == StrVal(<<"h">>)

AuthorityFilter(search, params) ==
    [search |-> Filter(search, Term("authority", Authority)), params |-> params]

\* A mutant of AuthFilter: the user's id is required as well as shared (AND).
AuthFilterAnd(search, params, userid) ==
    [search |-> IF userid = None THEN Filter(search, Term("shared", PyTrue))
                ELSE Filter(Filter(search, Term("shared", PyTrue)),
                            Term("user_raw", userid)),
     params |-> params]

AuthFilter(search, params, userid) ==
    [search |-> IF userid = None THEN Filter(search, Term("shared", PyTrue))
                ELSE Filter(search, BoolShould({Term("shared", PyTrue),
                                                Term("user_raw", userid)})),
     params |-> params]

\* A mutant of GroupFilter: the clause is added even when no group is given.
GroupFilterAlways(search, params) ==
    LET p == Pop(params, "group")
    IN [search |-> Filter(search, Term("group", p.v)), params |-> p.params]

GroupFilter(search, params) ==
    LET p == Pop(params, "group")
    IN [search |-> IF p.found THEN Filter(search, Term("group", p.v)) ELSE search,
        params |-> p.params]

\* ------------------------------------------------------- the group service

World == StrVal(<<"w">>)
G1 == StrVal(<<"g", "1">>)
G2 == StrVal(<<"g", "2">>)
Alice == StrVal(<<"A", "l">>)
Bob == StrVal(<<"b", "o">>)

\* group_service.groupids_readable_by(user)
groupids_readable_by(user) == IF user = Alice THEN {World, G1} ELSE {World}

\* group_service.groupids_created_by(user)
groupids_created_by(user) == IF user = Alice THEN {G1} ELSE {}

\* A mutant of GroupAuthFilter: the restriction is left out.
GroupAuthFilterOff(search, params, user) == [search |-> search, params |-> params]

GroupAuthFilter(search, params, user) ==
    [search |-> Filter(search, Terms("group", groupids_readable_by(user))),
     params |-> params]

\* ------------------------------------------------------------ lower(), join

LowerChar(c) == CASE c = "A" -> "a" [] c = "B" -> "b" [] OTHER -> c

Lower(v) == StrVal([i \in 1..Len(v.s) |-> LowerChar(v.s[i])])

\* A mutant of JoinChars: the values are joined with nothing between them.
JoinCharsNoSpace(values) ==
    IF values = <<>> THEN <<>>
    ELSE IF Len(values) = 1 THEN values[1].s
    ELSE IF Len(values) = 2 THEN values[1].s \o values[2].s
    ELSE values[1].s \o values[2].s \o values[3].s

RECURSIVE JoinChars(_)
\* ' '.join(values)
JoinChars(values) ==
    IF values = <<>> THEN <<>>
    ELSE IF Len(values) = 1 THEN values[1].s
    ELSE values[1].s \o <<" ">> \o JoinChars(Tail(values))

Range(seq) == {seq[i] : i \in 1..Len(seq)}

\* ------------------------------------------------------------- URI filters

\* storage.expand_uri followed by uri.normalize: the equivalent URIs of one
\* URI, normalised
ExpandAndNormalize(query_uri) == {Lower(query_uri)}

UriWildcardFilter(search, params) ==
    LET query_uris == ValuesOf(params, {"wildcard_uri"})
        uris == UNION {ExpandAndNormalize(u) : u \in Range(query_uris)}
    IN [search |-> Query(search, BoolShould({Wildcard("target.scope", u) : u \in uris})),
        params |-> params]

UriFilter(search, params) ==
    IF ~Has(params, "uri") /\ ~Has(params, "url")
    THEN [search |-> search, params |-> params]
    ELSE LET query_uris == ValuesOf(params, {"uri", "url"})
             uris == UNION {ExpandAndNormalize(u) : u \in Range(query_uris)}
         IN [search |-> Filter(search, Terms("target.scope", uris)),
             params |-> Del(Del(params, "uri"), "url")]

\* ------------------------------------------------------------ UserFilter

\* A mutant of UserFilter: the values are used as they are given.
UserFilterAsGiven(search, params) ==
    IF ~Has(params, "user")
    THEN [search |-> search, params |-> params]
    ELSE [search |-> Filter(search, Terms("user", Range(ValuesOf(params, {"user"})))),
          params |-> Del(params, "user")]

UserFilter(search, params) ==
    IF ~Has(params, "user")
    THEN [search |-> search, params |-> params]
    ELSE LET users == ValuesOf(params, {"user"})
         IN [search |-> Filter(search, Terms("user", {Lower(u) : u \in Range(users)})),
             params |-> Del(params, "user")]

\* ----------------------------------------------- Nipsa / suppression filter

\* A mutant of NipsaFilter: the created-groups clause is added for every user.
NipsaFilterAlwaysGroups(search, params, user) ==
    LET base == {MustNot(Term("nipsa", PyTrue)), Exists("thread_ids")}
        mine == IF user # None THEN {Term("user", Lower(user))} ELSE {}
        created == IF user # None THEN {Terms("group", groupids_created_by(user))} ELSE {}
    IN [search |-> Filter(search, BoolShould(base \cup mine \cup created)),
        params |-> params]

NipsaFilter(search, params, user) ==
    LET base == {MustNot(Term("nipsa", PyTrue)), Exists("thread_ids")}
        mine == IF user # None THEN {Term("user", Lower(user))} ELSE {}
        created_groups == groupids_created_by(user)
        created == IF user # None /\ created_groups # {}
                   THEN {Terms("group", created_groups)} ELSE {}
    IN [search |-> Filter(search, BoolShould(base \cup mine \cup created)),
        params |-> params]

\* query.HiddenFilter is named by Search.__init__ and is not part of
\* h/search/query.py: it is the suppression filter of the specification.
HiddenFilter(search, params, user) == NipsaFilter(search, params, user)

\* ------------------------------------------------------------- the matchers

AnyMatcher(search, params) ==
    IF ~Has(params, "any")
    THEN [search |-> search, params |-> params]
    ELSE LET qs == StrVal(JoinChars(ValuesOf(params, {"any"})))
         IN [search |-> Query(search, SimpleQueryString(qs)),
             params |-> Del(params, "any")]

\* A mutant of TagsMatcher: one of the tags is enough (OR).
TagsMatcherAny(search, params) ==
    LET tags == Range(ValuesOf(params, {"tag", "tags"}))
        after == IF Has(params, "tag") THEN Del(Del(params, "tag"), "tags") ELSE params
        matchers == {Match("tags", t) : t \in tags}
    IN [search |-> IF matchers # {} THEN Query(search, BoolShould(matchers)) ELSE search,
        params |-> after]

TagsMatcher(search, params) ==
    LET tags == Range(ValuesOf(params, {"tag", "tags"}))
        \* del params['tag'] raises KeyError when the key is absent, and then
        \* del params['tags'] is skipped
        after == IF Has(params, "tag") THEN Del(Del(params, "tag"), "tags") ELSE params
        matchers == {Match("tags", t) : t \in tags}
    IN [search |-> IF matchers # {} THEN Query(search, BoolMust(matchers)) ELSE search,
        params |-> after]

\* A mutant of KeyValueMatcher: only the first remaining pair is matched.
KeyValueMatcherFirstOnly(search, params) ==
    [search |-> IF params = <<>> THEN search
                ELSE Filter(search, Match(params[1].k, params[1].v)),
     params |-> params]

\* A mutant of KeyValueMatcher: the pairs are alternatives of one clause (OR).
KeyValueMatcherOr(search, params) ==
    [search |-> IF params = <<>> THEN search
                ELSE Filter(search, BoolShould({Match(params[i].k, params[i].v) :
                                                   i \in 1..Len(params)})),
     params |-> params]

RECURSIVE MatchAll(_, _)
MatchAll(search, items) ==
    IF items = <<>> THEN search
    ELSE MatchAll(Filter(search, Match(Head(items).k, Head(items).v)), Tail(items))

\* A mutant of KeyValueMatcher: the pairs it matches are taken out of the bag.
KeyValueMatcherConsuming(search, params) ==
    [search |-> MatchAll(search, params), params |-> <<>>]

KeyValueMatcher(search, params) ==
    [search |-> MatchAll(search, params), params |-> params]

\* ------------------------------------------------------------ aggregations

\* search.aggs.bucket(name, 'terms', size=limit, field=...)
Bucket(search, name) == [search EXCEPT !.aggs = Append(@, name)]

TagsAggregation(search, params) == Bucket(search, "tags")

UsersAggregation(search, params) == Bucket(search, "users")


\* ------------------------------------------------------ the document index

Bar == StrVal(<<"b", "a", "r">>)
TagA == StrVal(<<"a">>)
TagB == StrVal(<<"b">>)

\* a document id
Id(a, b) == StrVal(<<a, b>>)

Doc(id, group, shared, user_raw, more) ==
    [id |-> id,
     f |-> more @@ ("group" :> {group}) @@ ("shared" :> (IF shared THEN {PyTrue} ELSE {}))
                @@ ("user_raw" :> {user_raw}) @@ ("user" :> {Lower(user_raw)})]

NoMore == ("authority" :> {Authority})

\* the documents of the index, in the index's own order
Index ==
    << Doc(Id("a", "1"), World, TRUE, Alice, NoMore @@ ("foo" :> {Bar}) @@ ("tags" :> {TagA})),
       Doc(Id("a", "2"), G1, TRUE, Bob, NoMore @@ ("foo" :> {Bar})),
       Doc(Id("a", "3"), G2, TRUE, Bob, NoMore @@ ("foo" :> {Bar}) @@ ("tags" :> {TagA, TagB})),
       Doc(Id("a", "4"), World, FALSE, Alice, NoMore),
       Doc(Id("a", "5"), World, FALSE, Bob, NoMore @@ ("foo" :> {Bar})),
       Doc(Id("a", "6"), G1, FALSE, Alice, NoMore @@ ("foo" :> {Bar})),
       Doc(Id("a", "7"), G2, FALSE, Alice, NoMore @@ ("nipsa" :> {PyTrue})),
       Doc(Id("r", "1"), World, TRUE, Bob, NoMore @@ ("references" :> {Id("a", "1")})),
       Doc(Id("r", "2"), G2, TRUE, Alice, NoMore @@ ("references" :> {Id("a", "3")})),
       Doc(Id("x", "1"), World, TRUE, Bob, NoMore @@ ("deleted" :> {PyTrue})),
       Doc(Id("n", "1"), World, TRUE, Bob, NoMore @@ ("nipsa" :> {PyTrue}) @@ ("foo" :> {Bar})),
       Doc(Id("n", "2"), G1, TRUE, Bob, NoMore @@ ("nipsa" :> {PyTrue})),
       Doc(Id("n", "3"), World, TRUE, Bob,
           NoMore @@ ("nipsa" :> {PyTrue}) @@ ("thread_ids" :> {Id("a", "1")})) >>

FieldOf(doc, field) == IF field \in DOMAIN doc.f THEN doc.f[field] ELSE {}

FreeTextFields == {"quote", "tags", "text", "uri.parts"}

RECURSIVE Matches(_, _)
\* whether the index finds that a document satisfies a clause
Matches(doc, c) ==
    CASE c.op \in {"term", "terms", "match", "wildcard"} ->
             FieldOf(doc, c.field) \cap c.vals # {}
      [] c.op = "exists" -> FieldOf(doc, c.field) # {}
      [] c.op = "simple_query_string" ->
             \E fld \in FreeTextFields : FieldOf(doc, fld) \cap c.vals # {}
      [] c.op = "should" -> c.sub = {} \/ \E s \in c.sub : Matches(doc, s)
      [] c.op = "must" -> \A s \in c.sub : Matches(doc, s)
      [] c.op = "must_not" -> \A s \in c.sub : ~Matches(doc, s)

\* a document is a hit when it satisfies every clause of the query
MatchesSearch(doc, search) ==
    /\ \A i \in 1..Len(search.filter) : Matches(doc, search.filter[i])
    /\ \A i \in 1..Len(search.query) : Matches(doc, search.query[i])

RECURSIVE MatchedDocs(_, _)
MatchedDocs(docs, search) ==
    IF docs = <<>> THEN <<>>
    ELSE IF MatchesSearch(Head(docs), search)
         THEN <<Head(docs)>> \o MatchedDocs(Tail(docs), search)
         ELSE MatchedDocs(Tail(docs), search)

\* search.execute(): the total, the page of hits of the window, and the raw
\* aggregation section
Execute(search) ==
    LET matched == MatchedDocs(Index, search)
        from == IF search.window = <<>> THEN 0 ELSE search.window[1]
        size == IF search.window = <<>> THEN 10 ELSE search.window[2]
        page == SubSeq(matched, from + 1, Min(from + size, Len(matched)))
    IN [total |-> Len(matched),
        hits |-> [i \in 1..Len(page) |-> page[i].id],
        aggregations |-> Range(search.aggs)]


\* ---------------------------------------------------------- the pipeline

VARIABLES
    modifiers,          \* Search._modifiers
    aggregations,       \* Search._aggregations
    separate_replies,   \* Search.separate_replies
    user,               \* the request's authenticated user (None when absent)
    cleared,            \* history: clear() has been called on this pipeline
    pc,                 \* where run() is
    params0,            \* the bag as the caller passed it
    params,             \* the caller's bag, mutated in place by the modifiers
    search,             \* the query built last
    calls,              \* the aggregations and modifiers called, with the bag each saw
    executed,           \* the queries sent to the index by this run()
    primary,            \* what _search_annotations returned
    result,             \* the SearchResult run() returned
    raised,             \* the exception run() ended with ("" when none)
    stats,              \* the statsd pipeline of this run(): on when a client is configured
    parsed,             \* history: the aggregation section of the primary response and
                        \* the aggregations whose parse_result was called on it
    valid,              \* what wildcard_uri_is_valid returned last
    peer                \* a second request, served by its own pipeline at the same time

vars == <<modifiers, aggregations, separate_replies, user, cleared, pc, params0, params,
          search, calls, executed, primary, result, raised, stats, parsed, valid, peer>>

pipeline == <<modifiers, aggregations, separate_replies, user, cleared>>

\* self.stats with nothing recorded: on is whether a stats client is configured
Stats(on) ==
    [on |-> on, success |-> 0, timeout |-> 0, error |-> 0, stopped |-> 0, sent |-> 0]

\* A mutant of Instrument: a failed execution is counted as an error and as a
\* success (the increment of success is not skipped by the exception).
InstrumentSuccessAlways(st, outcome) ==
    IF ~st.on THEN st
    ELSE [st EXCEPT !.success = @ + 1,
                    !.timeout = @ + (IF outcome = "ConnectionTimeout" THEN 1 ELSE 0),
                    !.error = @ + (IF outcome \notin {"ok", "ConnectionTimeout"} THEN 1 ELSE 0),
                    !.stopped = @ + 1,
                    !.sent = @ + 1]

\* Search._instrument around one search.execute() that ends with outcome
Instrument(st, outcome) ==
    IF ~st.on THEN st
    ELSE [st EXCEPT !.success = @ + (IF outcome = "ok" THEN 1 ELSE 0),
                    !.timeout = @ + (IF outcome = "ConnectionTimeout" THEN 1 ELSE 0),
                    !.error = @ + (IF outcome \notin {"ok", "ConnectionTimeout"} THEN 1 ELSE 0),
                    !.stopped = @ + 1,
                    !.sent = @ + 1]

\* A mutant of Raises: only a timeout is raised again.
RaisesOnlyTimeout(outcome) == outcome = "ConnectionTimeout"

\* whether the exception of search.execute() leaves _search (the except
\* clauses of _instrument raise it again)
Raises(outcome) == outcome # "ok"

\* Search.__init__: the default chain
DefaultModifiers ==
    <<"Sorter", "Limiter", "DeletedFilter", "AuthFilter", "GroupFilter",
      "GroupAuthFilter", "UserFilter", "HiddenFilter", "AnyMatcher", "TagsMatcher",
      "KeyValueMatcher">>

\* the modifiers a caller adds with append_modifier
ExtraModifiers == {"UriFilter", "AuthorityFilter"}

\* the aggregations a caller adds with append_aggregation
ExtraAggregations == {"TagsAggregation", "UsersAggregation"}

AllModifiers ==
    Range(DefaultModifiers) \cup
    {"TopLevelAnnotationsFilter", "AuthorityFilter", "UriWildcardFilter", "UriFilter",
     "NipsaFilter"}

\* qual(search, params)
Apply(m, s, p, u) ==
    CASE m = "Sorter" -> Sorter(s, p)
      [] m = "Limiter" -> Limiter(s, p)
      [] m = "DeletedFilter" -> DeletedFilter(s, p)
      [] m = "AuthFilter" -> AuthFilter(s, p, u)
      [] m = "GroupFilter" -> GroupFilter(s, p)
      [] m = "GroupAuthFilter" -> GroupAuthFilter(s, p, u)
      [] m = "UserFilter" -> UserFilter(s, p)
      [] m = "HiddenFilter" -> HiddenFilter(s, p, u)
      [] m = "NipsaFilter" -> NipsaFilter(s, p, u)
      [] m = "AnyMatcher" -> AnyMatcher(s, p)
      [] m = "TagsMatcher" -> TagsMatcher(s, p)
      [] m = "KeyValueMatcher" -> KeyValueMatcher(s, p)
      [] m = "TopLevelAnnotationsFilter" -> TopLevelAnnotationsFilter(s, p)
      [] m = "AuthorityFilter" -> AuthorityFilter(s, p)
      [] m = "UriWildcardFilter" -> UriWildcardFilter(s, p)
      [] m = "UriFilter" -> UriFilter(s, p)

\* A mutant of ApplyAggregation: the aggregation attaches nothing.
ApplyAggregationNone(a, s, p) == s

\* agg(search, params)
ApplyAggregation(a, s, p) ==
    CASE a = "TagsAggregation" -> TagsAggregation(s, p)
      [] a = "UsersAggregation" -> UsersAggregation(s, p)

AggregationName(a) ==
    CASE a = "TagsAggregation" -> "tags"
      [] a = "UsersAggregation" -> "users"

Call(name, p) == [name |-> name, saw |-> p]

RECURSIVE RunAggregations(_, _, _, _)
\* for agg in aggregations: agg(search, params)
RunAggregations(aggs, s, p, log) ==
    IF aggs = <<>> THEN [search |-> s, params |-> p, calls |-> log]
    ELSE RunAggregations(Tail(aggs), ApplyAggregation(Head(aggs), s, p), p,
                         Append(log, Call(Head(aggs), p)))

RECURSIVE RunModifiersOnCopies(_, _, _, _, _)
\* A mutant of RunModifiers: each modifier is given its own copy of the bag.
RunModifiersOnCopies(mods, s, p, u, log) ==
    IF mods = <<>> THEN [search |-> s, params |-> p, calls |-> log]
    ELSE LET r == Apply(Head(mods), s, p, u)
         IN RunModifiersOnCopies(Tail(mods), r.search, p, u,
                                 Append(log, Call(Head(mods), p)))

RECURSIVE RunModifiers(_, _, _, _, _)
\* for qual in modifiers: search = qual(search, params)
RunModifiers(mods, s, p, u, log) ==
    IF mods = <<>> THEN [search |-> s, params |-> p, calls |-> log]
    ELSE LET r == Apply(Head(mods), s, p, u)
         IN RunModifiers(Tail(mods), r.search, r.params, u,
                         Append(log, Call(Head(mods), p)))

\* A mutant of BuildSearch: the aggregations are attached after the modifiers.
BuildSearchModifiersFirst(mods, aggs, p, u) ==
    LET m == RunModifiers(mods, EmptySearch, p, u, <<>>)
    IN RunAggregations(aggs, m.search, m.params, m.calls)

\* Search._search up to the execution: the query that is built
BuildSearch(mods, aggs, p, u) ==
    LET a == RunAggregations(aggs, EmptySearch, p, <<>>)
    IN RunModifiers(mods, a.search, a.params, u, a.calls)

\* A mutant of PrimaryModifiers: the exclusion of replies is added last.
PrimaryModifiersLast(mods, separate) ==
    IF separate THEN Append(mods, "TopLevelAnnotationsFilter") ELSE mods

\* A mutant of PrimaryModifiers: replies are excluded in either mode.
PrimaryModifiersAlways(mods, separate) == <<"TopLevelAnnotationsFilter">> \o mods

\* Search._search_annotations: the chain of the primary query
PrimaryModifiers(mods, separate) ==
    IF separate THEN <<"TopLevelAnnotationsFilter">> \o mods ELSE mods

\* Search._parse_aggregation_results: the names of the parsed aggregations
ParseAggregationResults(aggs, raw) ==
    IF raw = {} THEN {} ELSE {AggregationName(a) : a \in Range(aggs)}

NoResult == [total |-> 0, annotation_ids |-> <<>>, reply_ids |-> <<>>, aggregations |-> {}]

\* a request that has not called run() yet
IdlePeer(separate, u) ==
    [pc |-> "idle", separate_replies |-> separate, user |-> u, params0 |-> <<>>,
     params |-> <<>>, search |-> EmptySearch, executed |-> <<>>, primary |-> NoResult,
     result |-> NoResult, raised |-> ""]

\* no second request
NoPeer == IdlePeer(FALSE, None)

\* nothing parsed yet
NoParse == [section |-> {}, calls |-> <<>>]


\* A mutant of InsertFirst: the modifier is added behind the first of the chain.
InsertSecond(mods, m) == IF mods = <<>> THEN <<m>> ELSE <<Head(mods), m>> \o Tail(mods)

\* A mutant of InsertFirst: the modifier is added at the end of the chain.
InsertLast(mods, m) == Append(mods, m)

\* self._modifiers.insert(0, modifier)
InsertFirst(mods, m) == <<m>> \o mods

\* the number of modifiers and aggregations added since the constructor or clear()
Added == Len(aggregations) + (FirstIndex([i \in 1..Len(modifiers) |-> Pair(modifiers[i], None)], "Sorter") - 1)

\* the values of the parameter bags of the pipeline runs
Five == StrVal(<<"5">>)
UriX == StrVal(<<"h", ":", "X">>)
ParamPairs ==
    {Pair("group", G1), Pair("group", G2), Pair("foo", Bar), Pair("limit", Five),
     Pair("user", Alice), Pair("tag", TagA)}

Bags == SeqsUpTo(ParamPairs, MaxBag)

\* Search.__init__ with stats one of the given choices
InitSearch(withStats) ==
    /\ modifiers = DefaultModifiers
    /\ aggregations = <<>>
    /\ separate_replies \in BOOLEAN
    /\ user \in {None, Alice}
    /\ cleared = FALSE
    /\ pc = "idle"
    /\ params0 = <<>>
    /\ params = <<>>
    /\ search = EmptySearch
    /\ calls = <<>>
    /\ executed = <<>>
    /\ primary = NoResult
    /\ result = NoResult
    /\ raised = ""
    /\ stats \in {Stats(on) : on \in withStats}
    /\ parsed = NoParse
    /\ valid = FALSE
    /\ peer = NoPeer

\* Search(request, separate_replies): stats=None, the default
Init == InitSearch({FALSE})

\* Search.clear
Clear ==
    /\ pc = "idle"
    /\ modifiers' = <<"Sorter">>
    /\ aggregations' = <<>>
    /\ cleared' = TRUE
    /\ UNCHANGED <<separate_replies, user, pc, params0, params, search, calls,
                   executed, primary, result, raised, stats, parsed, valid, peer>>

\* Search.append_modifier
AppendModifier(m) ==
    /\ pc = "idle"
    /\ Added < MaxExtra
    /\ modifiers' = InsertFirst(modifiers, m)
    /\ UNCHANGED <<aggregations, separate_replies, user, cleared, pc, params0, params, search,
                   calls, executed, primary, result, raised, stats, parsed, valid, peer>>

\* Search.append_aggregation
AppendAggregation(a) ==
    /\ pc = "idle"
    /\ Added < MaxExtra
    /\ aggregations' = Append(aggregations, a)
    /\ UNCHANGED <<modifiers, separate_replies, user, cleared, pc, params0, params, search,
                   calls, executed, primary, result, raised, stats, parsed, valid, peer>>

\* A mutant of ChainAfterRun: the exclusion of replies is inserted into the
\* pipeline's own list.
ChainAfterRunInPlace(mods, separate) == PrimaryModifiers(mods, separate)

\* self._modifiers after _search_annotations: the list it was, the chain of
\* the query being a new list
ChainAfterRun(mods, separate) == mods

\* Search.run, first part: _search_annotations builds the primary query
Run(p) ==
    /\ pc = "idle"
    /\ LET b == BuildSearch(PrimaryModifiers(modifiers, separate_replies),
                            aggregations, p, user)
       IN /\ params0' = p
          /\ params' = b.params
          /\ search' = b.search
          /\ calls' = b.calls
    /\ pc' = "executing_primary"
    /\ modifiers' = ChainAfterRun(modifiers, separate_replies)
    /\ UNCHANGED <<aggregations, separate_replies, user, cleared, executed, primary, result,
                   raised, stats, parsed, valid, peer>>

\* A mutant of ParserCalls: the parsers are called whatever the section holds.
ParserCallsAlways(aggs, raw) == [i \in 1..Len(aggs) |-> AggregationName(aggs[i])]

\* Search._parse_aggregation_results: the aggregations whose parse_result is
\* called, in order
ParserCalls(aggs, raw) ==
    IF raw = {} THEN <<>> ELSE [i \in 1..Len(aggs) |-> AggregationName(aggs[i])]

\* the response of search.execute(): the index's answer, with or without its
\* aggregation section
Respond(s, withSection) ==
    IF withSection THEN Execute(s) ELSE [Execute(s) EXCEPT !.aggregations = {}]

\* Search._search: search.execute() of the primary query, then the extraction
\* of _search_annotations
ExecutePrimaryOn(outcome, withSection) ==
    /\ pc = "executing_primary"
    /\ executed' = Append(executed, search)
    /\ stats' = Instrument(stats, outcome)
    /\ IF ~Raises(outcome)
       THEN LET response == Respond(search, withSection)
            IN /\ primary' = [NoResult EXCEPT
                                 !.total = response.total,
                                 !.annotation_ids = response.hits,
                                 !.aggregations =
                                     ParseAggregationResults(aggregations,
                                                             response.aggregations)]
               /\ parsed' = [section |-> response.aggregations,
                              calls |-> ParserCalls(aggregations, response.aggregations)]
               /\ pc' = "searching_replies"
               /\ raised' = raised
       ELSE /\ raised' = outcome
            /\ pc' = "done"
            /\ primary' = primary
            /\ parsed' = parsed
    /\ UNCHANGED <<pipeline, params0, params, search, calls, result, valid, peer>>

\* the execution of the primary query by an index that answers in full
ExecutePrimary(outcome) == ExecutePrimaryOn(outcome, TRUE)

\* A mutant of RepliesSkipped: the replies search is made in either mode.
RepliesNeverSkipped(separate) == FALSE

\* whether _search_replies returns [] at once
RepliesSkipped(separate) == ~separate

\* Search._search_replies and the return of run().  In separate-replies mode
\* the arguments of self._search(...) are evaluated first, and the name
\* MultiDict is not bound in h/search/core.py (its import is commented out):
\* the call raises NameError before any replies query is built.
SearchReplies ==
    /\ pc = "searching_replies"
    /\ IF RepliesSkipped(separate_replies)
       THEN /\ result' = [primary EXCEPT !.reply_ids = <<>>]
            /\ raised' = raised
       ELSE /\ raised' = "NameError"
            /\ result' = result
    /\ pc' = "done"
    /\ UNCHANGED <<pipeline, params0, params, search, calls, executed, primary, stats,
                   parsed, valid, peer>>

\* the caller is done with the result; the pipeline is ready for another run()
Reset ==
    /\ pc = "done"
    /\ pc' = "idle"
    /\ params0' = <<>>
    /\ params' = <<>>
    /\ search' = EmptySearch
    /\ calls' = <<>>
    /\ executed' = <<>>
    /\ primary' = NoResult
    /\ result' = NoResult
    /\ raised' = ""
    /\ stats' = Stats(stats.on)
    /\ parsed' = NoParse
    /\ UNCHANGED <<pipeline, valid, peer>>

Next ==
    \/ Clear
    \/ \E m \in ExtraModifiers : AppendModifier(m)
    \/ \E a \in ExtraAggregations : AppendAggregation(a)
    \/ \E p \in Bags : Run(p)
    \/ \E outcome \in {"ok", "ConnectionTimeout", "TransportError"} : ExecutePrimary(outcome)
    \/ SearchReplies
    \/ Reset

Spec == Init /\ [][Next]_vars

\* Search(request, separate_replies, stats) with or without a stats client,
\* run on the bags of at most one pair
InitStats == InitSearch(BOOLEAN)

StatsBags ==
    {b \in Bags : Len(b) <= 1} \cup
    {<<Pair("uri", UriX)>>, <<Pair("uri", UriX), Pair("foo", Bar)>>}

NextStats ==
    \/ Clear
    \/ \E m \in ExtraModifiers : AppendModifier(m)
    \/ \E a \in ExtraAggregations : AppendAggregation(a)
    \/ \E p \in StatsBags : Run(p)
    \/ \E outcome \in {"ok", "ConnectionTimeout", "TransportError"}, withSection \in BOOLEAN :
          ExecutePrimaryOn(outcome, withSection)
    \/ SearchReplies
    \/ Reset

SpecStats == InitStats /\ [][NextStats]_vars


\* ------------------------------------------- one modifier called on one bag

Created == StrVal(<<"c", "r">>)
Asc == StrVal(<<"a", "s", "c">>)
Three == StrVal(<<"3">>)

ModifierPairs ==
    ParamPairs \cup
    {Pair("sort", Created), Pair("order", Asc), Pair("offset", Three),
     Pair("user", Bob), Pair("any", TagA), Pair("any", TagB), Pair("tags", TagB),
     Pair("tags", TagA),
     Pair("uri", UriX), Pair("url", UriX), Pair("wildcard_uri", UriX)}

ModifierBags == SeqsUpTo(ModifierPairs, MaxBag)

\* one modifier or one aggregation about to be called on a bag, by one of the
\* users, with the query built so far one of searches
InitCallOn(mods, aggs, bags, users, searches) ==
    /\ \/ modifiers \in {<<m>> : m \in mods} /\ aggregations = <<>>
       \/ modifiers = <<>> /\ aggregations \in {<<a>> : a \in aggs}
    /\ separate_replies = FALSE
    /\ user \in users
    /\ cleared = FALSE
    /\ pc = "call"
    /\ params0 \in bags
    /\ params = params0
    /\ search \in searches
    /\ calls = <<>>
    /\ executed = <<>>
    /\ primary = NoResult
    /\ result = NoResult
    /\ raised = ""
    /\ stats = Stats(FALSE)
    /\ parsed = NoParse
    /\ valid = FALSE
    /\ peer = NoPeer

\* one modifier about to be called on a bag, on the empty query
InitCall(mods, bags) == InitCallOn(mods, {}, bags, {None, Alice}, {EmptySearch})

\* search = qual(search, params) for the one modifier
CallModifier ==
    /\ pc = "call"
    /\ modifiers # <<>>
    /\ LET r == Apply(modifiers[1], search, params, user)
       IN /\ search' = r.search
          /\ params' = r.params
    /\ calls' = Append(calls, Call(modifiers[1], params))
    /\ pc' = "called"
    /\ UNCHANGED <<pipeline, params0, executed, primary, result, raised, stats, parsed, valid, peer>>

\* agg(search, params) for the one aggregation
CallAggregation ==
    /\ pc = "call"
    /\ aggregations # <<>>
    /\ search' = ApplyAggregation(aggregations[1], search, params)
    /\ calls' = Append(calls, Call(aggregations[1], params))
    /\ pc' = "called"
    /\ UNCHANGED <<pipeline, params0, params, executed, primary, result, raised, stats,
                   parsed, valid, peer>>

InitModifier == InitCallOn(AllModifiers, {}, ModifierBags, {None, Alice, Bob}, {EmptySearch})

SpecModifier == InitModifier /\ [][CallModifier]_vars

\* a query that earlier calls have built
Prebuilt ==
    [filter |-> <<Term("group", World), MustNot(Exists("deleted"))>>,
     query |-> <<BoolShould({Term("shared", PyTrue), Term("user_raw", Alice)})>>,
     sort |-> <<Pair(Created, Asc)>>,
     window |-> <<0, LIMIT_DEFAULT>>,
     aggs |-> <<"users">>]

\* one modifier or aggregation called on a query that earlier calls have built
InitRefine == InitCallOn(AllModifiers, ExtraAggregations, ModifierBags, {None, Alice}, {Prebuilt})

NextRefine == CallModifier \/ CallAggregation

SpecRefine == InitRefine /\ [][NextRefine]_vars

\* the characters of the texts given to the limit and offset parsers
TextChars == {"0", "1", "2", "9", "-", "+", " ", "_", ".", "x"}

Texts == {StrVal(s) : s \in SeqsUpTo(TextChars, MaxTextLen)}

\* the integers given to the parsers as integers
IntegerInputs == {IntVal(n) : n \in {0 - 1, 0, 7, 42, 200, 201}}

LimiterBags ==
    {<<>>} \cup
    {<<Pair("limit", x)>> : x \in Texts \cup IntegerInputs} \cup
    {<<Pair("offset", x)>> : x \in Texts \cup IntegerInputs} \cup
    {<<Pair("offset", Three), Pair("limit", x)>> : x \in Texts}

InitLimiter == InitCall({"Limiter"}, LimiterBags)

SpecLimiter == InitLimiter /\ [][CallModifier]_vars


\* ------------------------------------------- the wildcard URI validator

Letters ==
    {"a", "b", "c", "d", "e", "f", "g", "h", "i", "j", "k", "l", "m", "n", "o", "p", "q",
     "r", "s", "t", "u", "v", "w", "x", "y", "z", "A", "B", "C", "D", "E", "F", "G", "H",
     "I", "J", "K", "L", "M", "N", "O", "P", "Q", "R", "S", "T", "U", "V", "W", "X", "Y",
     "Z"}

\* urlparse.scheme_chars
SchemeChars == Letters \cup Digits \cup {"+", "-", "."}

\* c in s
Contains(s, c) == \E i \in 1..Len(s) : s[i] = c

\* s.find(c) + 1: the place of the first c in s, 0 when there is none
Find(s, c) ==
    IF Contains(s, c) THEN CHOOSE i \in 1..Len(s) : s[i] = c /\ \A j \in 1..(i - 1) : s[j] # c
    ELSE 0

\* urlsplit: whether the text before the first colon is taken as the scheme
HasScheme(url) ==
    LET i == Find(url, ":")
        rest == SubSeq(url, i + 1, Len(url))
    IN /\ i > 1
       /\ \A k \in 1..(i - 1) : url[k] \in SchemeChars
       /\ (rest = <<>> \/ \E k \in 1..Len(rest) : rest[k] \notin Digits)

\* urlsplit: the netloc of what follows the scheme, up to the first of / ? #
SplitNetloc(url) ==
    IF Len(url) >= 2 /\ url[1] = "/" /\ url[2] = "/"
    THEN LET ends == {k \in 3..Len(url) : url[k] \in {"/", "?", "#"}}
             delim == IF ends = {} THEN Len(url) + 1
                      ELSE CHOOSE k \in ends : \A e \in ends : k <= e
         IN SubSeq(url, 3, delim - 1)
    ELSE <<>>

\* urlparse.urlparse(url): the scheme and the netloc of the result
UrlParse(url) ==
    LET i == Find(url, ":")
    IN IF HasScheme(url)
       THEN [scheme |-> Lower(StrVal(SubSeq(url, 1, i - 1))).s,
             netloc |-> SplitNetloc(SubSeq(url, i + 1, Len(url)))]
       ELSE [scheme |-> <<>>, netloc |-> SplitNetloc(url)]

\* A mutant of wildcard_uri_is_valid: `_` is allowed in the netloc.
wildcard_uri_is_valid_star_only(wildcard_uri) ==
    IF ~Contains(wildcard_uri, "*") /\ ~Contains(wildcard_uri, "_") THEN FALSE
    ELSE LET normalized_uri == UrlParse(wildcard_uri)
         IN IF normalized_uri.scheme = <<>> \/ Contains(normalized_uri.netloc, "*")
            THEN FALSE
            ELSE TRUE

wildcard_uri_is_valid(wildcard_uri) ==
    IF ~Contains(wildcard_uri, "*") /\ ~Contains(wildcard_uri, "_") THEN FALSE
    ELSE LET normalized_uri == UrlParse(wildcard_uri)
         IN IF \/ normalized_uri.scheme = <<>>
               \/ Contains(normalized_uri.netloc, "*")
               \/ Contains(normalized_uri.netloc, "_")
            THEN FALSE
            ELSE TRUE

\* longest enumerated wildcard URI
MaxUriLen == 5

UriChars == {"a", ":", "/", "*", "_", "?"}

\* the URIs the interface documents as valid
ValidExamples ==
    {<<"h", "t", "t", "p", ":", "/", "/", "f", "o", "o", ".", "c", "o", "m", "/", "*">>,
     <<"u", "r", "n", ":", "x", "-", "p", "d", "f", ":", "*">>,
     <<"f", "i", "l", "e", ":", "/", "/", "l", "o", "c", "a", "l", "h", "o", "s", "t", "/", "_", "b", "c", ".", "p", "d", "f">>}

\* URIs with a wildcard in a place where none is allowed
InvalidExamples ==
    {<<"*", "f", "o", "o", ".", "c", "o", "m">>,
     <<"u", "_", "n", ":", "*">>,
     <<"f", "i", "l", "e", ":", "/", "/", "*">>,
     <<"h", "t", "t", "p", ":", "/", "/", "f", "o", "o", ".", "c", "o", "m", "*">>}

WildcardUris == SeqsUpTo(UriChars, MaxUriLen) \cup ValidExamples \cup InvalidExamples

InitWildcard ==
    /\ modifiers = <<"UriWildcardFilter">>
    /\ aggregations = <<>>
    /\ separate_replies = FALSE
    /\ user = None
    /\ cleared = FALSE
    /\ pc = "validate"
    /\ params0 \in {<<Pair("wildcard_uri", StrVal(u))>> : u \in WildcardUris}
    /\ params = params0
    /\ search = EmptySearch
    /\ calls = <<>>
    /\ executed = <<>>
    /\ primary = NoResult
    /\ result = NoResult
    /\ raised = ""
    /\ stats = Stats(FALSE)
    /\ parsed = NoParse
    /\ valid = FALSE
    /\ peer = NoPeer

\* the validation of the wildcard_uri parameter, upstream of the pipeline
Validate ==
    /\ pc = "validate"
    /\ valid' = wildcard_uri_is_valid(params0[1].v.s)
    /\ pc' = "validated"
    /\ UNCHANGED <<pipeline, params0, params, search, calls, executed, primary, result,
                   raised, stats, parsed, peer>>

SpecWildcard == InitWildcard /\ [][Validate]_vars


\* ------------------------------------------------- two concurrent requests

\* A mutant of BagOf: the second request is given the first request's bag.
BagOfOther(own, other) == other

\* the bag a request's run() works on: the one its caller passed
BagOf(own, other) == own

\* the second request's search.run(params), first part
PeerRun(p) ==
    /\ peer.pc = "idle"
    /\ LET b == BuildSearch(PrimaryModifiers(DefaultModifiers, peer.separate_replies),
                            <<>>, BagOf(p, params), peer.user)
       IN peer' = [peer EXCEPT !.params0 = p, !.params = b.params, !.search = b.search,
                               !.pc = "executing_primary"]
    /\ UNCHANGED <<pipeline, pc, params0, params, search, calls, executed, primary, result,
                   raised, stats, parsed, valid>>

\* the second request's search.execute() and extraction
PeerExecute(outcome) ==
    /\ peer.pc = "executing_primary"
    /\ IF ~Raises(outcome)
       THEN LET response == Execute(peer.search)
            IN peer' = [peer EXCEPT
                           !.executed = Append(@, peer.search),
                           !.primary = [NoResult EXCEPT
                                           !.total = response.total,
                                           !.annotation_ids = response.hits],
                           !.pc = "searching_replies"]
       ELSE peer' = [peer EXCEPT !.executed = Append(@, peer.search),
                                 !.raised = outcome, !.pc = "done"]
    /\ UNCHANGED <<pipeline, pc, params0, params, search, calls, executed, primary, result,
                   raised, stats, parsed, valid>>

\* the second request's _search_replies and the return of its run()
PeerReplies ==
    /\ peer.pc = "searching_replies"
    /\ IF RepliesSkipped(peer.separate_replies)
       THEN peer' = [peer EXCEPT !.result = [peer.primary EXCEPT !.reply_ids = <<>>],
                                 !.pc = "done"]
       ELSE peer' = [peer EXCEPT !.raised = "NameError", !.pc = "done"]
    /\ UNCHANGED <<pipeline, pc, params0, params, search, calls, executed, primary, result,
                   raised, stats, parsed, valid>>

\* two requests, each with a pipeline as the search view constructs it and
\* with its own bag
InitTwo ==
    /\ modifiers = DefaultModifiers
    /\ aggregations = <<>>
    /\ separate_replies \in BOOLEAN
    /\ user \in {None, Alice}
    /\ cleared = FALSE
    /\ pc = "idle"
    /\ params0 = <<>>
    /\ params = <<>>
    /\ search = EmptySearch
    /\ calls = <<>>
    /\ executed = <<>>
    /\ primary = NoResult
    /\ result = NoResult
    /\ raised = ""
    /\ stats = Stats(FALSE)
    /\ parsed = NoParse
    /\ valid = FALSE
    /\ peer \in {IdlePeer(separate, u) : separate \in BOOLEAN, u \in {None, Alice}}

NextTwo ==
    \/ \E p \in StatsBags : Run(p)
    \/ \E outcome \in {"ok", "ConnectionTimeout", "TransportError"} : ExecutePrimary(outcome)
    \/ SearchReplies
    \/ \E p \in StatsBags : PeerRun(p)
    \/ \E outcome \in {"ok", "ConnectionTimeout", "TransportError"} : PeerExecute(outcome)
    \/ PeerReplies

SpecTwo == InitTwo /\ [][NextTwo]_vars


\* ================================================================== claims

ExecutionErrors == {"ConnectionTimeout", "TransportError"}

\* the primary execution returned a response (run() got past _search_annotations)
PrimaryReturned == pc = "searching_replies" \/ (pc = "done" /\ raised \notin ExecutionErrors)

\* the chain has run over the caller's bag
ChainHasRun == pc \in {"executing_primary", "searching_replies", "done"}

Nine99 == StrVal(<<"9", "9", "9">>)

\* C1: whatever string is given as `limit`, Limiter produces a window whose
\* size (ending offset minus starting offset) is an integer in [0, 200].
C1_LimitWindowInBounds ==
    pc = "called" =>
        /\ Len(search.window) = 2
        /\ search.window[2] \in 0..LIMIT_MAX

C1_Witness ==
    /\ pc = "called"
    /\ params0 = <<Pair("offset", Three), Pair("limit", Nine99)>>
    /\ search.window = <<3, LIMIT_MAX>>

GroupsOf(doc) == FieldOf(doc, "group")

AsksUnreadableGroup ==
    \E i \in 1..Len(params0) :
        params0[i].k = "group" /\ params0[i].v \notin groupids_readable_by(user)

SharedDoc(doc) == PyTrue \in FieldOf(doc, "shared")

\* C3: AuthFilter lets a document pass exactly when it is shared or, with an
\* authenticated user, when its raw user field is that user's id; with no
\* user the filter is the single clause shared=true.
C3_AuthFilterSharedOrOwn ==
    (pc = "called" /\ modifiers = <<"AuthFilter">>) =>
        /\ Len(search.filter) = 1
        /\ search.query = <<>>
        /\ user = None => search.filter[1] = Term("shared", PyTrue)
        /\ \A j \in 1..Len(Index) :
              MatchesSearch(Index[j], search)
                  <=> \/ SharedDoc(Index[j])
                      \/ (user # None /\ user \in FieldOf(Index[j], "user_raw"))

C3_Witness ==
    /\ pc = "called"
    /\ modifiers = <<"AuthFilter">>
    /\ user = Alice
    /\ \E j \in 1..Len(Index) : ~SharedDoc(Index[j]) /\ MatchesSearch(Index[j], search)
    /\ \E j \in 1..Len(Index) : ~SharedDoc(Index[j]) /\ ~MatchesSearch(Index[j], search)

Occurrences(seq, x) == Cardinality({i \in 1..Len(seq) : seq[i] = x})

CallNames == [i \in 1..Len(calls) |-> calls[i].name]

MatchClauses(s) == SelectSeq(s.filter, LAMBDA c : c.op = "match")

LeftoverMatches == [i \in 1..Len(params) |-> Match(params[i].k, params[i].v)]

\* C5 as stated: in every pipeline state, clear() included, each pair left in
\* the bag after the other modifiers have run is a match clause of the query.
C5_Original_EveryLeftoverMatched ==
    ChainHasRun => MatchClauses(search) = LeftoverMatches

\* C5 as amended: as long as clear() has not been called, each pair left in
\* the bag after the other modifiers have run is a match clause of the
\* primary query, one clause per pair and in the order of the bag.
C5_LeftoverMatchedUnlessCleared ==
    (~cleared /\ ChainHasRun) => MatchClauses(search) = LeftoverMatches

C5_Witness ==
    /\ ~cleared
    /\ pc = "executing_primary"
    /\ params0 = <<Pair("foo", Bar), Pair("foo", Bar)>>
    /\ Len(MatchClauses(search)) = 2

ConsumedKeys == {"sort", "order", "offset", "limit", "group"}

\* C6 as stated: after Sorter, Limiter and GroupFilter have run, the bag
\* holds no value of sort, order, offset, limit or group.
C6_Claim_ConsumedKeysGone ==
    (~cleared /\ ChainHasRun) => \A i \in 1..Len(params) : params[i].k \notin ConsumedKeys

RepliesClause(ids) == BoolMust({Terms("references", Range(ids))})

\* C7 as stated: in separate-replies mode a run() whose primary query
\* returned executes a second query, whose first clause restricts
\* `references` to the primary IDs, and returns a SearchResult.
C7_Claim_RepliesQueryRuns ==
    (separate_replies /\ pc = "done" /\ PrimaryReturned) =>
        /\ raised = ""
        /\ Len(executed) = 2
        /\ executed[2].query # <<>>
        /\ executed[2].query[1] = RepliesClause(primary.annotation_ids)
        /\ executed[2].aggs = <<>>
        /\ result.annotation_ids = primary.annotation_ids

\* C8: with separate-replies mode off, run() executes exactly one query and,
\* when that query returns, returns its IDs with an empty reply_ids.
C8_NoRepliesQueryWhenOff ==
    ~separate_replies =>
        /\ Len(executed) <= 1
        /\ ChainHasRun /\ pc # "executing_primary" => Len(executed) = 1
        /\ (pc = "done" /\ PrimaryReturned) =>
              /\ raised = ""
              /\ result.reply_ids = <<>>
              /\ result = [primary EXCEPT !.reply_ids = <<>>]

C8_Witness ==
    /\ ~separate_replies
    /\ pc = "done"
    /\ raised = ""
    /\ Len(executed) = 1
    /\ Len(result.annotation_ids) > 1
    /\ result.reply_ids = <<>>

\* C9 as stated: the replies query exists and, with the default chain, its
\* window is [0, min(_replies_limit, 200)).
C9_Claim_RepliesWindow ==
    (separate_replies /\ ~cleared /\ pc = "done" /\ PrimaryReturned) =>
        /\ Len(executed) = 2
        /\ executed[2].window = <<0, Min(REPLIES_LIMIT, LIMIT_MAX)>>

\* C10 as stated: in separate-replies mode run() does not raise once the
\* primary query has returned, whatever the replies page holds, and issues
\* no query after the replies query.
C10_Claim_NoRaiseOnOverflow ==
    (separate_replies /\ PrimaryReturned) =>
        /\ raised = ""
        /\ Len(executed) <= 2


\* C11: with a stats client configured, every query execution increments
\* exactly one of success, timeout and error (timeout for a connection
\* timeout, error for any other exception, success otherwise) and stops the
\* timer and sends the stats exactly once.
C11_OneCounterPerExecution ==
    stats.on =>
        /\ stats.success + stats.timeout + stats.error = Len(executed)
        /\ stats.stopped = Len(executed)
        /\ stats.sent = Len(executed)
        /\ stats.timeout = (IF raised = "ConnectionTimeout" THEN 1 ELSE 0)
        /\ stats.error = (IF raised = "TransportError" THEN 1 ELSE 0)
        /\ stats.success = (IF PrimaryReturned THEN 1 ELSE 0)

C11_Witness ==
    /\ stats.on
    /\ pc = "done"
    /\ raised = "ConnectionTimeout"
    /\ stats.timeout = 1
    /\ stats.success = 0
    /\ stats.sent = 1

\* C12: when the execution of a query fails, run() ends with that error
\* after the instrumentation has recorded it: no SearchResult is returned and
\* no further query is built or executed.
C12_ExecutionErrorPropagates ==
    /\ raised \in ExecutionErrors =>
          /\ pc = "done"
          /\ result = NoResult
          /\ primary = NoResult
          /\ Len(executed) = 1
          /\ stats.on => stats.timeout + stats.error = 1
    /\ (stats.on /\ stats.timeout + stats.error > 0) => raised \in ExecutionErrors

C12_Witness ==
    /\ stats.on
    /\ separate_replies
    /\ pc = "done"
    /\ raised = "TransportError"
    /\ stats.error = 1
    /\ Len(executed) = 1
    /\ result = NoResult


\* clear() has been called and nothing has been added since
ClearedAndBare == cleared /\ Added = 0

SortOnly(s) ==
    /\ Len(s.sort) = 1
    /\ s.filter = <<>>
    /\ s.query = <<>>
    /\ s.aggs = <<>>

\* C13 as stated: after clear() the chain is [Sorter] and there is no
\* aggregation, and a run() with nothing added builds a query with a sort and
\* no filter, must or aggregation clause, whatever the bag holds.
C13_Original_ClearedRunIsSortOnly ==
    ClearedAndBare =>
        /\ modifiers = <<"Sorter">>
        /\ aggregations = <<>>
        /\ ChainHasRun => SortOnly(search)

\* C13 as amended: after clear() the chain is [Sorter] and there is no
\* aggregation; a run() with nothing added builds a query with a sort and no
\* must or aggregation clause, whatever the bag holds, whose filter is empty
\* when separate-replies mode is off and is the one exclusion of replies
\* when it is on.
C13_ClearedRunIsSortOnlyButReplies ==
    ClearedAndBare =>
        /\ modifiers = <<"Sorter">>
        /\ aggregations = <<>>
        /\ (ChainHasRun /\ ~separate_replies) => SortOnly(search)
        /\ (ChainHasRun /\ separate_replies) =>
              /\ search.filter = <<MustNot(Exists("references"))>>
              /\ SortOnly([search EXCEPT !.filter = <<>>])

C13_Witness ==
    /\ ClearedAndBare
    /\ ~separate_replies
    /\ pc = "executing_primary"
    /\ params0 = <<Pair("group", G1), Pair("foo", Bar)>>
    /\ params = params0
    /\ SortOnly(search)

\* a run() of the default chain on the empty bag
DefaultRunNoParams ==
    /\ ChainHasRun
    /\ params0 = <<>>
    /\ modifiers = DefaultModifiers
    /\ aggregations = <<>>

\* C14 as stated: with no parameters and the default chain the query has no
\* filter clause and no must clause.
C14_Original_DefaultMatchesAll ==
    DefaultRunNoParams => (search.filter = <<>> /\ search.query = <<>>)

\* the filter clauses the default chain adds whatever the bag holds, up to
\* the suppression filter
StandingFilters ==
    (IF separate_replies THEN <<MustNot(Exists("references"))>> ELSE <<>>) \o
    << MustNot(Exists("deleted")),
       IF user = None THEN Term("shared", PyTrue)
       ELSE BoolShould({Term("shared", PyTrue), Term("user_raw", user)}),
       Terms("group", groupids_readable_by(user)) >>

\* C14 as amended: with no parameters and the default chain the query has
\* no must clause and no clause made from a parameter; its filter clauses
\* are the standing ones (not deleted, shared or the user's own, in a group
\* the user can read, then the suppression filter, after the exclusion of
\* replies in separate-replies mode), so deleted and unreadable documents do
\* not match.
C14_DefaultRunHasOnlyStandingFilters ==
    DefaultRunNoParams =>
        /\ search.query = <<>>
        /\ Len(search.filter) = Len(StandingFilters) + 1
        /\ SubSeq(search.filter, 1, Len(StandingFilters)) = StandingFilters
        /\ \A i \in 1..Len(Index) :
              MatchesSearch(Index[i], search) =>
                  /\ FieldOf(Index[i], "deleted") = {}
                  /\ GroupsOf(Index[i]) \subseteq groupids_readable_by(user)

C14_Witness ==
    /\ DefaultRunNoParams
    /\ separate_replies
    /\ user = Alice
    /\ pc = "executing_primary"
    /\ Len(search.filter) = 5
    /\ search.query = <<>>


\* the one modifier m has been called on the bag params0
Called(m) == pc = "called" /\ modifiers = <<m>>

\* C15 as stated: KeyValueMatcher run on a bag of a single pair adds one
\* match clause on that key and value to the must clauses of the query and
\* nothing to its filter clauses.
C15_Claim_SinglePairIsMustClause ==
    (Called("KeyValueMatcher") /\ Len(params0) = 1) =>
        /\ search.query = <<Match(params0[1].k, params0[1].v)>>
        /\ search.filter = <<>>

\* every clause of the query, filter clauses first
AllClauses(s) == s.filter \o s.query

\* the document holds, in the pair's field, the pair's value
HoldsPair(doc, pair) == pair.v \in FieldOf(doc, pair.k)

DigitChar(d) ==
    CASE d = 0 -> "0" [] d = 1 -> "1" [] d = 2 -> "2" [] d = 3 -> "3" [] d = 4 -> "4"
      [] d = 5 -> "5" [] d = 6 -> "6" [] d = 7 -> "7" [] d = 8 -> "8" [] d = 9 -> "9"

RECURSIVE Decimal(_)
\* str(n) of a non-negative integer
Decimal(n) ==
    IF n < 10 THEN <<DigitChar(n)>> ELSE Append(Decimal(n \div 10), DigitChar(n % 10))

\* the first value of the key in the bag the caller passed
Given(key) == params0[FirstIndex(params0, key)].v

\* the limit of the reference: n in [0, LIMIT_MAX] gives n, above gives
\* LIMIT_MAX, and negative, unparsable or missing gives LIMIT_DEFAULT
LimitReference ==
    IF ~Has(params0, "limit") THEN LIMIT_DEFAULT
    ELSE LET r == PyInt(Given("limit"))
         IN IF ~r.ok \/ r.n < 0 THEN LIMIT_DEFAULT
            ELSE IF r.n > LIMIT_MAX THEN LIMIT_MAX
            ELSE r.n

\* C17: the limit Limiter takes from the bag is the reference's for every
\* input, and the string str(n) of an n in [0, 200] gives exactly n.
C17_LimitParserIsReference ==
    Called("Limiter") =>
        /\ search.window[2] = LimitReference
        /\ Has(params0, "limit") =>
              \A n \in 0..LIMIT_MAX :
                  Given("limit") = StrVal(Decimal(n)) => search.window[2] = n

C17_Witness ==
    /\ Called("Limiter")
    /\ params0 = <<Pair("limit", StrVal(<<"1", "9", "0">>))>>
    /\ search.window[2] = 190
    /\ params = <<>>

\* the offset of the reference: a non-negative integer gives itself and
\* anything else, or nothing, gives 0
OffsetReference ==
    IF ~Has(params0, "offset") THEN 0
    ELSE LET r == PyInt(Given("offset"))
         IN IF r.ok /\ r.n >= 0 THEN r.n ELSE 0

\* the texts that encode no integer
NotNumbers ==
    {StrVal(<<>>), StrVal(<<" ">>), StrVal(<<"x">>), StrVal(<<"2", ".", "9">>),
     StrVal(<<".", "9">>), StrVal(<<"1", ".">>)}

\* C18: the offset Limiter takes from the bag is 0 for a missing,
\* non-numeric, empty, fractional or negative input and n, uncapped, for a
\* text or integer that encodes n >= 0; the window starts at the offset and
\* has the limit's length.
C18_OffsetParserAndWindow ==
    Called("Limiter") =>
        /\ search.window = <<OffsetReference, LimitReference>>
        /\ (Has(params0, "offset") /\ Given("offset") \in NotNumbers) => search.window[1] = 0
        /\ Has(params0, "offset") =>
              \A n \in 0..999 :
                  Given("offset") \in {StrVal(Decimal(n)), IntVal(n)} => search.window[1] = n

C18_Witness ==
    /\ Called("Limiter")
    /\ params0 = <<Pair("offset", Nine99)>>
    /\ search.window = <<999, LIMIT_DEFAULT>>

\* C19 as stated: after TagsMatcher has run the bag holds no `tag` key and
\* no `tags` key, whichever of the two it held before.
C19_Claim_BothSpellingsConsumed ==
    Called("TagsMatcher") => (~Has(params, "tag") /\ ~Has(params, "tags"))

\* the tag values of the bag the caller passed, under either spelling
TagValues == {params0[i].v : i \in {j \in 1..Len(params0) : params0[j].k \in {"tag", "tags"}}}

\* C20: TagsMatcher adds one required match clause per distinct tag value
\* of `tag` and `tags`, so that a document matches only if it holds every
\* tag; with no tag value the query is unchanged.
C20_OneRequiredMatchPerTag ==
    Called("TagsMatcher") =>
        /\ TagValues = {} => search = EmptySearch
        /\ TagValues # {} =>
              /\ search = [EmptySearch EXCEPT !.query = <<search.query[1]>>]
              /\ search.query[1].op = "must"
              /\ search.query[1].sub = {Match("tags", tag) : tag \in TagValues}
              /\ Cardinality(search.query[1].sub) = Cardinality(TagValues)
        /\ \A i \in 1..Len(Index) :
              MatchesSearch(Index[i], search) <=> TagValues \subseteq FieldOf(Index[i], "tags")

C20_Witness ==
    /\ Called("TagsMatcher")
    /\ params0 = <<Pair("tag", TagA), Pair("tags", TagB)>>
    /\ Cardinality(search.query[1].sub) = 2
    /\ \E i \in 1..Len(Index) : MatchesSearch(Index[i], search)
    /\ \E i \in 1..Len(Index) :
          TagA \in FieldOf(Index[i], "tags") /\ ~MatchesSearch(Index[i], search)


\* the bag as a call leaves it: an aggregation leaves it as it was
BagAfter(c) ==
    IF c.name \in ExtraAggregations THEN c.saw
    ELSE Apply(c.name, EmptySearch, c.saw, user).params

\* C21: a modifier added with append_modifier is a member of the chain,
\* placed before the catch-all, and every run() calls it, once, with the
\* caller's own bag: it sees what the calls before it left in the bag, and
\* what it removes is gone for the calls after it and for the caller.
C21_AppendedModifierRunsOnCallersBag ==
    /\ \A i, j \in 1..Len(modifiers) :
          (modifiers[i] \in ExtraModifiers /\ modifiers[j] = "KeyValueMatcher") => i < j
    /\ (ChainHasRun /\ calls # <<>>) =>
          /\ \A m \in Range(modifiers) :
                Occurrences(CallNames, m) = Occurrences(modifiers, m)
          /\ \A i, j \in 1..Len(calls) :
                (calls[i].name \in ExtraModifiers /\ calls[j].name = "KeyValueMatcher")
                    => i < j
          /\ calls[1].saw = params0
          /\ \A i \in 1..(Len(calls) - 1) : calls[i + 1].saw = BagAfter(calls[i])
          /\ params = BagAfter(calls[Len(calls)])

C21_Witness ==
    /\ pc = "executing_primary"
    /\ ~cleared
    /\ modifiers[1] = "UriFilter"
    /\ params0 = <<Pair("uri", UriX), Pair("foo", Bar)>>
    /\ params = <<Pair("foo", Bar)>>
    /\ \E i \in 1..Len(calls) : calls[i].name = "UriFilter" /\ calls[i].saw = params0
    /\ calls[Len(calls)].name = "KeyValueMatcher"
    /\ calls[Len(calls)].saw = params

\* C22: every aggregation added with append_aggregation is a member of the
\* aggregation list, is called once with the caller's bag when the primary
\* query is built, and is attached to that query and to no later one.
C22_AggregationsOnPrimaryOnly ==
    ChainHasRun =>
        /\ \A a \in Range(aggregations) :
              Occurrences(CallNames, a) = Occurrences(aggregations, a)
        /\ \A i \in 1..Len(calls) :
              calls[i].name \in ExtraAggregations => calls[i].saw = params0
        /\ search.aggs = [i \in 1..Len(aggregations) |-> AggregationName(aggregations[i])]
        /\ \A i \in 2..Len(executed) : executed[i].aggs = <<>>

C22_Witness ==
    /\ pc = "done"
    /\ separate_replies
    /\ aggregations = <<"TagsAggregation", "UsersAggregation">>
    /\ params0 = <<Pair("limit", Five)>>
    /\ search.aggs = <<"tags", "users">>
    /\ Len(executed) = 1
    /\ executed[1].aggs = search.aggs


\* the names of the registered aggregations, in the order of the list
RegisteredNames == [i \in 1..Len(aggregations) |-> AggregationName(aggregations[i])]

\* C23: when the aggregation section of the primary response is absent or
\* empty, the aggregations of the result are the empty mapping and no
\* aggregation's parser is called; otherwise every registered aggregation's
\* parser is called and the mapping has one entry per registered name.
C23_AggregationResults ==
    /\ PrimaryReturned =>
          /\ parsed.section = {} =>
                (primary.aggregations = {} /\ parsed.calls = <<>>)
          /\ parsed.section # {} =>
                /\ primary.aggregations = Range(RegisteredNames)
                /\ parsed.calls = RegisteredNames
    /\ (pc = "done" /\ raised = "") => result.aggregations = primary.aggregations

C23_Witness ==
    /\ pc = "done"
    /\ raised = ""
    /\ aggregations = <<"UsersAggregation", "TagsAggregation">>
    /\ search.aggs = <<"users", "tags">>
    /\ parsed = NoParse
    /\ result.aggregations = {}
    /\ result.total > 0


\* the steps of run() that have happened keep their order: nothing is
\* executed before the primary query is built, the primary query is executed
\* once before the replies step, and no more than two queries are executed
StepOrderKept ==
    /\ Len(executed) <= 2
    /\ pc \in {"idle", "executing_primary"} => executed = <<>>
    /\ pc = "searching_replies" => Len(executed) = 1
    /\ pc = "done" => Len(executed) >= 1

\* C24 as stated: the steps of one run() are build primary, execute primary,
\* then in separate-replies mode, and only then, build replies and execute
\* replies, then assemble: a run() whose primary execution returned ends
\* assembled, after two executions in separate-replies mode and one
\* otherwise.
C24_Claim_StepsInOrder ==
    /\ StepOrderKept
    /\ (pc = "done" /\ raised \notin ExecutionErrors) =>
          /\ raised = ""
          /\ Len(executed) = (IF separate_replies THEN 2 ELSE 1)
          /\ result.annotation_ids = primary.annotation_ids

\* the positions in the log of the calls of aggregations, and of modifiers
AggregationCalls == {i \in 1..Len(calls) : calls[i].name \in ExtraAggregations}
ModifierCalls == {i \in 1..Len(calls) : calls[i].name \notin ExtraAggregations}

TopLevelOnly == MustNot(Exists("references"))

\* C27: the primary query excludes the documents that carry a `references`
\* field if and only if separate-replies mode is on; the top-level-only
\* filter is then the first modifier called, and it is part of no later
\* query.
C27_TopLevelOnlyIffSeparate ==
    ChainHasRun =>
        /\ (TopLevelOnly \in Range(AllClauses(search))) <=> separate_replies
        /\ Occurrences(CallNames, "TopLevelAnnotationsFilter") = (IF separate_replies THEN 1 ELSE 0)
        /\ separate_replies =>
              /\ calls[Len(aggregations) + 1].name = "TopLevelAnnotationsFilter"
              /\ \A i \in 1..Len(Index) :
                    MatchesSearch(Index[i], search) => FieldOf(Index[i], "references") = {}
        /\ \A i \in 2..Len(executed) : TopLevelOnly \notin Range(AllClauses(executed[i]))

C27_Witness ==
    /\ separate_replies
    /\ ~cleared
    /\ pc = "searching_replies"
    /\ params0 = <<>>
    /\ Id("a", "1") \in Range(primary.annotation_ids)
    /\ Id("r", "1") \notin Range(primary.annotation_ids)
    /\ \E i \in 1..Len(Index) :
          /\ Index[i].id = Id("r", "1")
          /\ MatchesSearch(Index[i], [search EXCEPT !.filter = Tail(@)])


\* the URI given to the validator
GivenUri == params0[1].v.s

HasWildcard(u) == Contains(u, "*") \/ Contains(u, "_")

\* C25: the validator accepts a string only if it contains `*` or `_`,
\* parses with a non-empty scheme and has neither `*` nor `_` in its
\* authority; it accepts the documented examples and rejects the examples
\* with a misplaced wildcard, every string with no wildcard, every string
\* that starts with a wildcard or a delimiter, and every string with a
\* wildcard right after `//`.
C25_WildcardValidator ==
    pc = "validated" =>
        /\ valid =>
              /\ HasWildcard(GivenUri)
              /\ UrlParse(GivenUri).scheme # <<>>
              /\ ~HasWildcard(UrlParse(GivenUri).netloc)
        /\ GivenUri \in ValidExamples => valid
        /\ GivenUri \in InvalidExamples => ~valid
        /\ ~HasWildcard(GivenUri) => ~valid
        /\ (GivenUri # <<>> /\ GivenUri[1] \in {"*", "_", ":", "/", "?"}) => ~valid
        /\ (Len(GivenUri) >= 5 /\ SubSeq(GivenUri, 1, 4) = <<"a", ":", "/", "/">>
              /\ GivenUri[5] \in {"*", "_"}) => ~valid

C25_Witness ==
    /\ pc = "validated"
    /\ GivenUri \in ValidExamples
    /\ Contains(GivenUri, "_")
    /\ UrlParse(GivenUri).netloc = <<"l", "o", "c", "a", "l", "h", "o", "s", "t">>
    /\ valid


\* C28: every call refines the query: the filter clauses and the must
\* clauses after the call are a superset of those before it, the
\* aggregations attached before are still attached, and no document matches
\* after the call that did not match before it.
C28_EveryCallRefines ==
    pc = "called" =>
        /\ Range(Prebuilt.filter) \subseteq Range(search.filter)
        /\ Range(Prebuilt.query) \subseteq Range(search.query)
        /\ Range(Prebuilt.aggs) \subseteq Range(search.aggs)
        /\ \A i \in 1..Len(Index) :
              MatchesSearch(Index[i], search) => MatchesSearch(Index[i], Prebuilt)

C28_Witness ==
    /\ pc = "called"
    /\ modifiers = <<"GroupFilter">>
    /\ params0 = <<Pair("group", G1)>>
    /\ search.filter = Append(Prebuilt.filter, Term("group", G1))
    /\ \E i \in 1..Len(Index) : MatchesSearch(Index[i], Prebuilt)
    /\ \A i \in 1..Len(Index) : ~MatchesSearch(Index[i], search)

\* a document flagged as suppressed that has no reply thread
SuppressedNoThread(doc) ==
    PyTrue \in FieldOf(doc, "nipsa") /\ FieldOf(doc, "thread_ids") = {}

\* C29: the suppression filter is one disjunction: 'not flagged suppressed'
\* and 'has a reply thread' always, 'user is the requesting user
\* (lower-cased)' with a user, 'group is one the user created' with a user
\* who created a group; a suppressed document with no thread passes only
\* for its author and for the creator of its group.
C29_SuppressionClauses ==
    Called("NipsaFilter") =>
        LET created == groupids_created_by(user)
            authorClause == IF user # None THEN {Term("user", Lower(user))} ELSE {}
            groupClause == IF user # None /\ created # {}
                           THEN {Terms("group", created)} ELSE {}
        IN /\ search = [EmptySearch EXCEPT !.filter = <<search.filter[1]>>]
           /\ search.filter[1].op = "should"
           /\ search.filter[1].sub =
                 {MustNot(Term("nipsa", PyTrue)), Exists("thread_ids")}
                     \cup authorClause \cup groupClause
           /\ Cardinality(search.filter[1].sub) =
                 2 + Cardinality(authorClause) + Cardinality(groupClause)
           /\ \A i \in 1..Len(Index) :
                 SuppressedNoThread(Index[i]) =>
                     (MatchesSearch(Index[i], search) <=>
                         /\ user # None
                         /\ \/ FieldOf(Index[i], "user") = {Lower(user)}
                            \/ GroupsOf(Index[i]) \cap created # {})

C29_Witness ==
    /\ Called("NipsaFilter")
    /\ user = Alice
    /\ Cardinality(search.filter[1].sub) = 4
    /\ \E i \in 1..Len(Index) :
          /\ SuppressedNoThread(Index[i])
          /\ FieldOf(Index[i], "user_raw") = {Bob}
          /\ MatchesSearch(Index[i], search)
    /\ \E i \in 1..Len(Index) :
          SuppressedNoThread(Index[i]) /\ ~MatchesSearch(Index[i], search)

\* C30 as stated: after UriWildcardFilter has run no `wildcard_uri` key is
\* left in the bag, and after UriFilter has run no `uri` and no `url` key.
C30_Claim_UriParametersConsumed ==
    /\ Called("UriWildcardFilter") => ~Has(params, "wildcard_uri")
    /\ Called("UriFilter") => (~Has(params, "uri") /\ ~Has(params, "url"))


\* the pairs of the caller's bag whose key is not key, in the order of the bag
Without(key) == SelectSeq(params0, LAMBDA pair : pair.k # key)

\* the values the caller's bag holds for key, in the order of the bag
GivenValues(key) ==
    LET items == SelectSeq(params0, LAMBDA pair : pair.k = key)
    IN [i \in 1..Len(items) |-> items[i].v]

AliceLowered == StrVal(<<"a", "l">>)

\* C31: UserFilter, when the bag holds `user` values, removes them all and
\* restricts the query to the documents whose user is one of the lower-cased
\* values; with no `user` key the query and the bag are unchanged.
C31_UserFilter ==
    Called("UserFilter") =>
        LET given == Range(GivenValues("user"))
            lowered == {Lower(u) : u \in given}
        IN /\ given = {} => (search = EmptySearch /\ params = params0)
           /\ given # {} =>
                 /\ params = Without("user")
                 /\ search = [EmptySearch EXCEPT !.filter = <<Terms("user", lowered)>>]
                 /\ Alice \in given => (AliceLowered \in lowered /\ Alice \notin lowered)
                 /\ \A i \in 1..Len(Index) :
                       MatchesSearch(Index[i], search) <=>
                           \E u \in given : \E w \in FieldOf(Index[i], "user_raw") :
                               Lower(w) = Lower(u)

C31_Witness ==
    /\ Called("UserFilter")
    /\ params0 = <<Pair("user", Bob), Pair("user", Alice)>>
    /\ params = <<>>
    /\ search.filter[1].vals = {Bob, AliceLowered}
    /\ \A i \in 1..Len(Index) : MatchesSearch(Index[i], search)

\* the texts joined by one space, built from the last text backwards
RECURSIVE SpaceJoined(_)
SpaceJoined(texts) ==
    IF Len(texts) = 1 THEN texts[1].s
    ELSE SpaceJoined(SubSeq(texts, 1, Len(texts) - 1)) \o <<" ">> \o texts[Len(texts)].s

\* C32: AnyMatcher, when the bag holds `any` values, removes them all and
\* adds one free-text clause whose text is the values joined by one space
\* in the order of the bag; with no `any` key the query and the bag are
\* unchanged and every document still matches.
C32_AnyMatcher ==
    Called("AnyMatcher") =>
        LET given == GivenValues("any")
        IN /\ given = <<>> =>
                 /\ search = EmptySearch
                 /\ params = params0
                 /\ \A i \in 1..Len(Index) : MatchesSearch(Index[i], search)
           /\ given # <<>> =>
                 /\ params = Without("any")
                 /\ search = [EmptySearch EXCEPT
                                 !.query = <<SimpleQueryString(StrVal(SpaceJoined(given)))>>]

C32_Witness ==
    /\ Called("AnyMatcher")
    /\ params0 = <<Pair("any", TagB), Pair("any", TagA)>>
    /\ params = <<>>
    /\ search.query = <<SimpleQueryString(StrVal(<<"b", " ", "a">>))>>
    /\ search.filter = <<>>


\* what one request gives when it is served alone: the primary query, the
\* bag as run() leaves it, and what run() ends with when the index answers
Alone(separate, u, p) ==
    LET b == BuildSearch(IF separate THEN <<"TopLevelAnnotationsFilter">> \o DefaultModifiers
                         ELSE DefaultModifiers, <<>>, p, u)
        response == Execute(b.search)
    IN [search |-> b.search,
        params |-> b.params,
        result |-> [total |-> response.total, annotation_ids |-> response.hits,
                    reply_ids |-> <<>>, aggregations |-> {}],
        raised |-> IF separate THEN "NameError" ELSE ""]

\* the request r, at whatever step it is, is where it would be if served alone
AsAlone(r) ==
    LET alone == Alone(r.separate_replies, r.user, r.params0)
    IN /\ r.pc # "idle" => (r.search = alone.search /\ r.params = alone.params)
       /\ r.pc = "done" => (r.executed = <<alone.search>> /\ r.raised \in ExecutionErrors \cup {alone.raised})
       /\ (r.pc = "done" /\ r.raised = "") => r.result = alone.result

\* the first request, as a record
FirstRequest ==
    [pc |-> pc, separate_replies |-> separate_replies, user |-> user, params0 |-> params0,
     params |-> params, search |-> search, executed |-> executed, primary |-> primary,
     result |-> result, raised |-> raised]

C34_RunKeepsTheChain ==
    [][(pc # "idle" \/ pc' # "idle") =>
          /\ modifiers' = modifiers
          /\ aggregations' = aggregations
          /\ "TopLevelAnnotationsFilter" \notin Range(modifiers')]_vars

C34_Witness ==
    /\ pc = "done"
    /\ separate_replies
    /\ raised = "NameError"
    /\ modifiers = <<"UriFilter">> \o DefaultModifiers
    /\ aggregations = <<"TagsAggregation">>
    /\ CallNames = <<"TagsAggregation", "TopLevelAnnotationsFilter">> \o modifiers

\* the names of the modifiers called, in the order of the calls
ModifierCallNames == SelectSeq(CallNames, LAMBDA name : name \notin ExtraAggregations)

\* C35: append_modifier puts the modifier in front of all that the chain
\* holds, and run() calls the chain from its front: a modifier added later
\* is called before one added earlier, and both before the modifiers the
\* chain held before, Sorter and Limiter included.
C35_LastAddedRunsFirst ==
    /\ [][Len(modifiers') = Len(modifiers) + 1 =>
             (modifiers'[1] \in ExtraModifiers /\ Tail(modifiers') = modifiers)]_vars
    /\ [](ChainHasRun =>
             ModifierCallNames =
                 (IF separate_replies THEN <<"TopLevelAnnotationsFilter">> ELSE <<>>)
                     \o modifiers)

C35_Witness ==
    /\ pc = "executing_primary"
    /\ ~separate_replies
    /\ modifiers = <<"AuthorityFilter", "UriFilter">> \o DefaultModifiers
    /\ CallNames[1] = "AuthorityFilter"
    /\ CallNames[2] = "UriFilter"
    /\ CallNames[3] = "Sorter"
    /\ CallNames[4] = "Limiter"

\* s is t with some of its items left out
RECURSIVE IsSubsequence(_, _)
IsSubsequence(s, t) ==
    IF s = <<>> THEN TRUE
    ELSE IF t = <<>> THEN FALSE
    ELSE IF Head(s) = Head(t) THEN IsSubsequence(Tail(s), Tail(t))
    ELSE IsSubsequence(s, Tail(t))

\* C36: KeyValueMatcher leaves the bag as it finds it: after run() the
\* caller's bag holds the pairs KeyValueMatcher was given, which are pairs
\* of the bag the caller passed, in their order.
C36_CatchAllKeepsTheBag ==
    (ChainHasRun /\ ~cleared) =>
        /\ calls[Len(calls)].name = "KeyValueMatcher"
        /\ params = calls[Len(calls)].saw
        /\ IsSubsequence(params, params0)

C36_Witness ==
    /\ pc = "done"
    /\ ~cleared
    /\ raised = ""
    /\ params0 = <<Pair("foo", Bar), Pair("limit", Five)>>
    /\ params = <<Pair("foo", Bar)>>
    /\ calls[Len(calls)] = Call("KeyValueMatcher", params)
    /\ Match("foo", Bar) \in Range(search.filter)

====
